---------------------------- MODULE Spec2Model ----------------------------
(***************************************************************************)
(* Ribbon sketches (p5.js): chain generators (greedy walk "A" and          *)
(* depth-first search "B"), viewport fitter, void filler, arc extraction,  *)
(* arc drawing, layered pulse renderer and the PNG-frame recorder.         *)
(*                                                                         *)
(* Lengths.  A coordinate or radius v of the program is held as the        *)
(* integer v * den, the variable den being the common denominator: 2 after *)
(* generation (seeds of the search sit at half a radius from an edge) and  *)
(* 2 * den * bboxExtent after a fit that scaled the chain down.  The       *)
(* canvas, the radius range and the budgets are scaled down.               *)
(*                                                                         *)
(* Angles are whole degrees: TWO_PI is 360.                                *)
(***************************************************************************)
EXTENDS Integers, Sequences, FiniteSets, TLC

VARIABLES
    variant,        \* "A": part_000 / first sketch of part_001, "B": perspective sketch
    pc,             \* position inside setup()
    circles,        \* let circles = []
    arcs,           \* let arcs = []
    den,            \* common denominator of the lengths in circles / bestCircles
    attempts,       \* A: let attempts
    totalTries,     \* B: let totalTries
    outsideCount,   \* B: let outsideCount
    bestCircles,    \* B: let bestCircles
    bestOutsideCt,  \* B: let bestOutsideCt
    stack,          \* B: the loop variable ang (as a fan index) of every live dfs frame
    entered,        \* history: circles and outsideCount at the entry of every live dfs frame
    fillLeft,       \* B: fillVoids' parameter attempts
    maxPathLen,     \* history: longest path ever held in circles during the search
    qualBuilt,      \* history: longest path ever built holding >= TARGET_OUTSIDE outside circles
    qualTried,      \* history: the same, seen by a dfs invocation inside the try budget
    prevArcs,       \* history: arcs.length when buildArcList was last entered
    drawn,          \* the (start, stop) pairs handed to arc() by the last pass over arcs
    sketch,         \* draw loop: "single" (first sketch of part_001) or "multi"
    frameCount,     \* p5 frameCount
    lit,            \* layers stroked turquoise in the last frame
    winRecPending,  \* window.recPending (property of the global object)
    recPending,     \* let recPending (script-scoped binding of capture.js)
    grabCount,      \* let grabCount
    folder,         \* names of the files stored in the zip folder
    zips,           \* archives generated (zip.generateAsync calls)
    saved           \* saveCanvas calls

vars == << variant, pc, circles, arcs, den, attempts, totalTries, outsideCount,
           bestCircles, bestOutsideCt, stack, entered, fillLeft, maxPathLen, qualBuilt,
           qualTried, prevArcs, drawn, sketch, frameCount, lit, winRecPending, recPending,
           grabCount, folder, zips, saved >>

genVars == << variant, pc, circles, arcs, den, attempts, totalTries, outsideCount,
              bestCircles, bestOutsideCt, stack, entered, fillLeft, maxPathLen, qualBuilt,
              qualTried >>

drawVars == << sketch, frameCount, lit, winRecPending, recPending, grabCount, folder,
               zips, saved >>

---------------------------------------------------------------------------
(* Parameters *)

CANVAS_W == 12
CANVAS_H == 12
VIEWPORT == 12
VIEW_PAD == 1
MIN_R == 2
MAX_R == 3
\* the literal 30 of the greedy walk: chain length from which the walk may end
MIN_CHAIN == 3
MAX_ATTEMPTS == 7
MAX_CIRCLES_A == 5
MAX_CIRCLES_B == 4
MAX_TOTAL_TRIES == 10
TARGET_OUTSIDE == 2
\* overlapsAny's tolerance 0.1 of the search, in half model units
EPS_HALVES == 2
TWO_PI == 360
PI == TWO_PI \div 2
HALF_PI == TWO_PI \div 4
\* the fan of the search: ANGLE_STEP = TWO_PI / FAN_STEPS
FAN_STEPS == 4
ANGLE_STEP == TWO_PI \div FAN_STEPS
\* fillVoids: its attempts and the radius of a filler circle
FILL_ATTEMPTS == 2
FILL_R == 1
LAYERS == 220
GAP == 6
TICK == 1
REC_SECONDS == 10
REC_FPS == 60
REC_FRAMES == REC_SECONDS * REC_FPS
\* frames drawn, stills saved
MaxFrames == 240
MaxSaved == 1
\* circle lists and angles tried on buildArcList and drawArcSegment
MaxArcList == 4
AngleGrain == 10
\* JavaScript undefined in the edge field of a circle that is not the seed
NoEdge == 0 - 1

RadiusChoices == {MIN_R, MAX_R}
Edges == 0 .. 3

---------------------------------------------------------------------------
(* Arithmetic helpers *)

Min2(a, b) == IF a <= b THEN a ELSE b
Max2(a, b) == IF a >= b THEN a ELSE b
Sq(a) == a * a
Abs(a) == IF a < 0 THEN 0 - a ELSE a
Last(s) == s[Len(s)]
Front(s) == SubSeq(s, 1, Len(s) - 1)

\* JavaScript's %: the remainder takes the sign of the dividend
JsMod(a, m) == IF a >= 0 THEN a % m ELSE 0 - ((0 - a) % m)

\* cos and sin of an angle on the axes (a multiple of HALF_PI)
Cos(a) == LET q == (a % TWO_PI) \div HALF_PI
          IN  CASE q = 0 -> 1 [] q = 2 -> 0 - 1 [] OTHER -> 0
Sin(a) == LET q == (a % TWO_PI) \div HALF_PI
          IN  CASE q = 1 -> 1 [] q = 3 -> 0 - 1 [] OTHER -> 0

\* atan2 in degrees, in (-PI, PI]: exact on the axes and the diagonals; any other
\* direction is quantised to the middle of its octant
Atan2(dy, dx) ==
    LET ax == Abs(dx)
        ay == Abs(dy)
        first == IF ax = 0 /\ ay = 0 THEN 0
                 ELSE IF ay = 0 THEN 0
                 ELSE IF ax = 0 THEN HALF_PI
                 ELSE IF ax = ay THEN HALF_PI \div 2
                 ELSE IF ay < ax THEN HALF_PI \div 4
                 ELSE HALF_PI - HALF_PI \div 4
    IN  IF dx >= 0 /\ dy >= 0 THEN first
        ELSE IF dx < 0 /\ dy >= 0 THEN PI - first
        ELSE IF dx < 0 /\ dy < 0 THEN first - PI
        ELSE 0 - first

\* p5 random(min, max) swaps its bounds when min > max; the draws of the model are
\* the axis angles of the interval
AngleChoices(minA, maxA) ==
    LET lo == Min2(minA, maxA)
        hi == Max2(minA, maxA)
    IN  { a \in { k * HALF_PI : k \in (0 - 1) .. 4 } : lo <= a /\ a <= hi }

---------------------------------------------------------------------------
(* Geometry on circles; d is the denominator of the lengths *)

Circle(x, y, r, e) == [x |-> x, y |-> y, radius |-> r, edge |-> e]

Dist2(a, b) == Sq(a.x - b.x) + Sq(a.y - b.y)

\* A: dist(c, nc) < c.radius + nc.radius; at exact tangency the rounding of
\* cos, sin and hypot decides (u)
overlapsAnyA(cs, nc, u) ==
    \E i \in 1 .. Len(cs) :
        \/ Dist2(cs[i], nc) < Sq(cs[i].radius + nc.radius)
        \/ u /\ Dist2(cs[i], nc) = Sq(cs[i].radius + nc.radius)

Eps(d) == (EPS_HALVES * d) \div 2

\* mutant of overlapsAnyB: only the tail of the chain is tested
overlapsTailB(cs, nc, d) ==
    \E i \in Len(cs) .. Len(cs) :
        Dist2(cs[i], nc) < Sq(cs[i].radius + nc.radius - Eps(d))

\* B: dist(c, nc) < c.radius + nc.radius - 0.1
overlapsAnyB(cs, nc, d) ==
    \E i \in 1 .. Len(cs) :
        Dist2(cs[i], nc) < Sq(cs[i].radius + nc.radius - Eps(d))

\* mutant of isOutside: a circle that touches an edge counts as outside
isOutsideTouching(c, d) ==
    \/ c.x - c.radius <= 0
    \/ c.x + c.radius >= CANVAS_W * d
    \/ c.y - c.radius <= 0
    \/ c.y + c.radius >= CANVAS_H * d

isOutside(c, d) ==
    \/ c.x - c.radius < 0
    \/ c.x + c.radius > CANVAS_W * d
    \/ c.y - c.radius < 0
    \/ c.y + c.radius > CANVAS_H * d

fullyOutside(c, d) ==
    \/ c.x + c.radius < 0
    \/ c.x - c.radius > CANVAS_W * d
    \/ c.y + c.radius < 0
    \/ c.y - c.radius > CANVAS_H * d

OutsideIn(cs, d) == Cardinality({ i \in 1 .. Len(cs) : fullyOutside(cs[i], d) })

\* mutant of NextCircle: the candidate is set a diameter of the new circle away
NextCircleFar(last, newR, ang) ==
    Circle(last.x + Cos(ang) * (last.radius + newR * 2),
           last.y + Sin(ang) * (last.radius + newR * 2),
           newR, NoEdge)

\* the next circle, tangent to last along angle ang
NextCircle(last, newR, ang) ==
    Circle(last.x + Cos(ang) * (last.radius + newR),
           last.y + Sin(ang) * (last.radius + newR),
           newR, NoEdge)

\* the draws of random(lo, hi) the model takes: both ends and the middle
FreeChoices(lo, hi) == {lo, (lo + hi) \div 2, hi}

---------------------------------------------------------------------------
(* Variant A: greedy constrained walk *)

SeedA(edge, r0, free) ==
    Circle(IF edge = 1 THEN CANVAS_W * 2 - r0
           ELSE IF edge = 3 THEN r0 ELSE free,
           IF edge = 0 THEN r0
           ELSE IF edge = 2 THEN CANVAS_H * 2 - r0 ELSE free,
           r0, edge)

\* the free coordinate runs along the anchoring edge
FreeExtent(e) == IF e = 0 \/ e = 2 THEN CANVAS_W ELSE CANVAS_H

SeedsA ==
    UNION { { SeedA(e, 2 * r, f) : f \in FreeChoices(2 * r, FreeExtent(e) * 2 - 2 * r) }
            : e \in Edges, r \in RadiusChoices }

safeMin(c, d) ==
    LET m1 == IF c.x - c.radius <= 0 THEN 0 - HALF_PI
              ELSE IF c.x + c.radius >= CANVAS_W * d THEN HALF_PI ELSE 0
    IN  IF c.y - c.radius <= 0 THEN Max2(m1, 0)
        ELSE IF c.y + c.radius >= CANVAS_H * d THEN Max2(m1, PI) ELSE m1

safeMax(c, d) ==
    LET m1 == IF c.x - c.radius <= 0 THEN HALF_PI
              ELSE IF c.x + c.radius >= CANVAS_W * d THEN PI + HALF_PI ELSE TWO_PI
    IN  IF c.y - c.radius <= 0 THEN Min2(m1, PI)
        ELSE IF c.y + c.radius >= CANVAS_H * d THEN Min2(m1, TWO_PI) ELSE m1

safeAngle(c, d) == AngleChoices(safeMin(c, d), safeMax(c, d))

\* while (++attempts < MAX_ATTEMPTS && circles.length < MAX_CIRCLES) { ... }
A_Attempt ==
    /\ variant = "A" /\ pc = "loop"
    /\ attempts + 1 < MAX_ATTEMPTS /\ Len(circles) < MAX_CIRCLES_A
    /\ \E newR \in RadiusChoices, u \in BOOLEAN :
       \E ang \in (IF Len(circles) < MIN_CHAIN THEN safeAngle(Last(circles), den)
                   ELSE AngleChoices(0, TWO_PI)) :
          LET next == NextCircle(Last(circles), newR * den, ang)
          IN  /\ attempts' = attempts + 1
              /\ IF overlapsAnyA(circles, next, u)
                 THEN /\ circles' = circles
                      /\ pc' = "loop"
                 ELSE /\ circles' = Append(circles, next)
                      /\ pc' = IF Len(circles) + 1 >= MIN_CHAIN /\ isOutside(next, den)
                               THEN "generated" ELSE "loop"
    /\ maxPathLen' = Max2(maxPathLen, Len(circles'))
    /\ UNCHANGED << prevArcs, drawn, drawVars >>
    /\ UNCHANGED << variant, arcs, den, totalTries, outsideCount, bestCircles,
                    bestOutsideCt, stack, entered, fillLeft, qualBuilt, qualTried >>

\* the loop condition fails: attempts used up, or the circle cap reached
A_Exit ==
    /\ variant = "A" /\ pc = "loop"
    /\ ~(attempts + 1 < MAX_ATTEMPTS /\ Len(circles) < MAX_CIRCLES_A)
    /\ attempts' = attempts + 1
    /\ pc' = "generated"
    /\ UNCHANGED << prevArcs, drawn, drawVars >>
    /\ UNCHANGED << variant, circles, arcs, den, totalTries, outsideCount,
                    bestCircles, bestOutsideCt, stack, entered, fillLeft, maxPathLen,
                    qualBuilt, qualTried >>

InitA ==
    /\ variant = "A" /\ pc = "loop"
    /\ \E s \in SeedsA : circles = << s >>
    /\ arcs = << >> /\ den = 2 /\ attempts = 0
    /\ totalTries = 0 /\ outsideCount = 0 /\ bestCircles = << >> /\ bestOutsideCt = 0
    /\ stack = << >> /\ entered = << >> /\ fillLeft = 0
    /\ maxPathLen = 1 /\ qualBuilt = 0 /\ qualTried = 0

---------------------------------------------------------------------------
(* Variant B: depth-first search with back-tracking *)

SeedB(edge, r0, free) ==
    Circle(IF edge = 1 THEN CANVAS_W * 2 - r0 \div 2
           ELSE IF edge = 3 THEN r0 \div 2 ELSE free,
           IF edge = 0 THEN r0 \div 2
           ELSE IF edge = 2 THEN CANVAS_H * 2 - r0 \div 2 ELSE free,
           r0, edge)

SeedsB ==
    UNION { { SeedB(e, 2 * r, f) : f \in FreeChoices(r, FreeExtent(e) * 2 - r) }
            : e \in Edges, r \in RadiusChoices }

Qualifies(cs, d) == OutsideIn(cs, d) >= TARGET_OUTSIDE

\* mutant of Better: any qualifying path replaces the record, longer or not
BetterAnyLength(cs, oc, best) == oc >= TARGET_OUTSIDE

\* record best chain so far: the test that guards the copy
Better(cs, oc, best) == oc >= TARGET_OUTSIDE /\ Len(cs) > Len(best)

\* what a dfs frame finds at its entry
Entry(cs, oc) == [circles |-> cs, outsideCount |-> oc]

\* mutant of DfsEnter: the try budget is counted but never ends an invocation
DfsEnterNoBudget(cs, oc, base) ==
    /\ totalTries' = totalTries + 1
    /\ entered' = Append(SubSeq(entered, 1, Len(base)), Entry(cs, oc))
    /\ IF Better(cs, oc, bestCircles)
       THEN bestCircles' = cs /\ bestOutsideCt' = oc
       ELSE UNCHANGED << bestCircles, bestOutsideCt >>
    /\ qualTried' = IF Qualifies(cs, den) THEN Max2(qualTried, Len(cs))
                    ELSE qualTried
    /\ stack' = Append(base, IF Len(cs) >= MAX_CIRCLES_B THEN FAN_STEPS ELSE 0)

\* the head of dfs(), entered with path cs and counter oc from the frames base:
\* the try budget, the best-chain record, the circle cap.  A frame whose fan index
\* is FAN_STEPS has nothing left to do but return.
DfsEnter(cs, oc, base) ==
    /\ totalTries' = totalTries + 1
    /\ entered' = Append(SubSeq(entered, 1, Len(base)), Entry(cs, oc))
    /\ IF totalTries + 1 > MAX_TOTAL_TRIES
       THEN /\ UNCHANGED << bestCircles, bestOutsideCt, qualTried >>
            /\ stack' = Append(base, FAN_STEPS)
       ELSE /\ IF Better(cs, oc, bestCircles)
               THEN bestCircles' = cs /\ bestOutsideCt' = oc
               ELSE UNCHANGED << bestCircles, bestOutsideCt >>
            /\ qualTried' = IF Qualifies(cs, den) THEN Max2(qualTried, Len(cs))
                            ELSE qualTried
            /\ stack' = Append(base, IF Len(cs) >= MAX_CIRCLES_B THEN FAN_STEPS ELSE 0)

History(cs) ==
    /\ maxPathLen' = Max2(maxPathLen, Len(cs))
    /\ qualBuilt' = IF Qualifies(cs, den) THEN Max2(qualBuilt, Len(cs)) ELSE qualBuilt

InitB ==
    /\ variant = "B" /\ pc = "launch"
    /\ \E s \in SeedsB : circles = << s >>
    /\ arcs = << >> /\ den = 2 /\ attempts = 0
    /\ totalTries = 0
    /\ outsideCount = (IF fullyOutside(circles[1], den) THEN 1 ELSE 0)
    /\ bestCircles = circles
    /\ bestOutsideCt = outsideCount
    /\ stack = << >> /\ entered = << >> /\ fillLeft = 0
    /\ maxPathLen = 1 /\ qualBuilt = 0 /\ qualTried = 0

\* dfs();  -- launch the search
B_Launch ==
    /\ variant = "B" /\ pc = "launch"
    /\ DfsEnter(circles, outsideCount, << >>)
    /\ pc' = "dfs"
    /\ History(circles)
    /\ UNCHANGED << prevArcs, drawn, drawVars >>
    /\ UNCHANGED << variant, circles, arcs, den, attempts, outsideCount, fillLeft >>

\* one candidate of the fan that overlaps a placed circle: continue
B_Reject ==
    /\ variant = "B" /\ pc = "dfs"
    /\ stack # << >> /\ Last(stack) < FAN_STEPS
    /\ \E newR \in RadiusChoices :
          overlapsAnyB(circles,
                       NextCircle(Last(circles), newR * den, Last(stack) * ANGLE_STEP),
                       den)
    /\ stack' = [stack EXCEPT ![Len(stack)] = @ + 1]
    /\ entered' = entered
    /\ UNCHANGED << prevArcs, drawn, drawVars >>
    /\ UNCHANGED << variant, pc, circles, arcs, den, attempts, totalTries, outsideCount,
                    bestCircles, bestOutsideCt, fillLeft, maxPathLen, qualBuilt,
                    qualTried >>

\* one candidate of the fan that fits: push it, count it, recurse
B_Place ==
    /\ variant = "B" /\ pc = "dfs"
    /\ stack # << >> /\ Last(stack) < FAN_STEPS
    /\ \E newR \in RadiusChoices :
          LET next == NextCircle(Last(circles), newR * den, Last(stack) * ANGLE_STEP)
              oc   == IF fullyOutside(next, den) THEN outsideCount + 1 ELSE outsideCount
          IN  /\ ~overlapsAnyB(circles, next, den)
              /\ circles' = Append(circles, next)
              /\ outsideCount' = oc
              /\ DfsEnter(Append(circles, next), oc, stack)
              /\ History(Append(circles, next))
    /\ UNCHANGED << prevArcs, drawn, drawVars >>
    /\ UNCHANGED << variant, pc, arcs, den, attempts, fillLeft >>

\* mutant of B_Backtrack: the circle is popped but the counter keeps it
B_BacktrackKeepCount ==
    /\ variant = "B" /\ pc = "dfs"
    /\ Len(stack) > 1 /\ Last(stack) = FAN_STEPS
    /\ outsideCount' = outsideCount
    /\ circles' = Front(circles)
    /\ stack' = [Front(stack) EXCEPT ![Len(stack) - 1] = @ + 1]
    /\ entered' = Front(entered)
    /\ UNCHANGED << prevArcs, drawn, drawVars >>
    /\ UNCHANGED << variant, pc, arcs, den, attempts, totalTries, bestCircles,
                    bestOutsideCt, fillLeft, maxPathLen, qualBuilt, qualTried >>

\* a dfs frame below the top one returns: the caller back-tracks and moves on
B_Backtrack ==
    /\ variant = "B" /\ pc = "dfs"
    /\ Len(stack) > 1 /\ Last(stack) = FAN_STEPS
    /\ outsideCount' = (IF fullyOutside(Last(circles), den) THEN outsideCount - 1
                        ELSE outsideCount)
    /\ circles' = Front(circles)
    /\ stack' = [Front(stack) EXCEPT ![Len(stack) - 1] = @ + 1]
    /\ entered' = Front(entered)
    /\ UNCHANGED << prevArcs, drawn, drawVars >>
    /\ UNCHANGED << variant, pc, arcs, den, attempts, totalTries, bestCircles,
                    bestOutsideCt, fillLeft, maxPathLen, qualBuilt, qualTried >>

\* the top-level dfs() returns
B_SearchDone ==
    /\ variant = "B" /\ pc = "dfs"
    /\ Len(stack) = 1 /\ Last(stack) = FAN_STEPS
    /\ stack' = << >>
    /\ entered' = << >>
    /\ pc' = "searched"
    /\ UNCHANGED << prevArcs, drawn, drawVars >>
    /\ UNCHANGED << variant, circles, arcs, den, attempts, totalTries, outsideCount,
                    bestCircles, bestOutsideCt, fillLeft, maxPathLen, qualBuilt,
                    qualTried >>

\* circles.length = 0; for (const c of bestCircles) circles.push(c);
B_Restore ==
    /\ variant = "B" /\ pc = "searched"
    /\ circles' = bestCircles
    /\ pc' = "generated"
    /\ UNCHANGED << prevArcs, drawn, drawVars >>
    /\ UNCHANGED << variant, arcs, den, attempts, totalTries, outsideCount,
                    bestCircles, bestOutsideCt, stack, entered, fillLeft, maxPathLen,
                    qualBuilt, qualTried >>

---------------------------------------------------------------------------
(* Viewport fitter, void filler, arc extraction *)

SetMin(S) == CHOOSE m \in S : \A n \in S : m <= n
SetMax(S) == CHOOSE m \in S : \A n \in S : m >= n

BoxMinX(cs) == SetMin({ cs[i].x - cs[i].radius : i \in 1 .. Len(cs) })
BoxMaxX(cs) == SetMax({ cs[i].x + cs[i].radius : i \in 1 .. Len(cs) })
BoxMinY(cs) == SetMin({ cs[i].y - cs[i].radius : i \in 1 .. Len(cs) })
BoxMaxY(cs) == SetMax({ cs[i].y + cs[i].radius : i \in 1 .. Len(cs) })

\* const limit = VIEWPORT - VIEW_PAD * 2, over the denominator d
Limit(d) == (VIEWPORT - VIEW_PAD * 2) * d

\* scale = min(1, min(limit / bw, limit / bh)) as the fraction ScaleNum / ScaleDen
ScaleDown(cs, d) ==
    Limit(d) < Max2(BoxMaxX(cs) - BoxMinX(cs), BoxMaxY(cs) - BoxMinY(cs))
ScaleNum(cs, d) == IF ScaleDown(cs, d) THEN Limit(d) ELSE 1

\* mutant of ScaleDen: the smaller extent of the bounding box divides the limit
ScaleDenSmaller(cs, d) ==
    IF ScaleDown(cs, d)
    THEN Min2(BoxMaxX(cs) - BoxMinX(cs), BoxMaxY(cs) - BoxMinY(cs))
    ELSE 1

ScaleDen(cs, d) ==
    IF ScaleDown(cs, d)
    THEN Max2(BoxMaxX(cs) - BoxMinX(cs), BoxMaxY(cs) - BoxMinY(cs))
    ELSE 1

\* the denominator of the fitted lengths
FitDen(cs, d) == 2 * d * ScaleDen(cs, d)

\* c.x = (c.x - cx) * scale + CANVAS_W * 0.5 (and y, radius), over FitDen
FitCircle(c, cs, d) ==
    Circle((2 * c.x - BoxMinX(cs) - BoxMaxX(cs)) * ScaleNum(cs, d)
               + CANVAS_W * d * ScaleDen(cs, d),
           (2 * c.y - BoxMinY(cs) - BoxMaxY(cs)) * ScaleNum(cs, d)
               + CANVAS_H * d * ScaleDen(cs, d),
           2 * c.radius * ScaleNum(cs, d),
           c.edge)

fitRibbonToViewport(cs, d) == [i \in 1 .. Len(cs) |-> FitCircle(cs[i], cs, d)]

B_Fit ==
    /\ variant = "B" /\ pc = "generated"
    /\ circles' = fitRibbonToViewport(circles, den)
    /\ den' = FitDen(circles, den)
    /\ fillLeft' = FILL_ATTEMPTS
    /\ pc' = "filling"
    /\ UNCHANGED << prevArcs, drawn, drawVars >>
    /\ UNCHANGED << variant, arcs, attempts, totalTries, outsideCount, bestCircles,
                    bestOutsideCt, stack, entered, maxPathLen, qualBuilt, qualTried >>

\* the helper fillVoids calls; the sources do not define it
fullyInsideViewport(c, d) ==
    /\ c.x - c.radius >= 0
    /\ c.x + c.radius <= VIEWPORT * d
    /\ c.y - c.radius >= 0
    /\ c.y + c.radius <= VIEWPORT * d

\* the draws of random(CANVAS_W) / random(CANVAS_H) the model takes
FillCoords(extent) == {FILL_R, extent \div 2, extent - FILL_R}

\* one turn of while (attempts--) { ... }
B_FillTry ==
    /\ variant = "B" /\ pc = "filling"
    /\ fillLeft > 0
    /\ fillLeft' = fillLeft - 1
    /\ \E nx \in FillCoords(CANVAS_W), ny \in FillCoords(CANVAS_H) :
          LET c == Circle(nx * den, ny * den, FILL_R * den, NoEdge)
          IN  circles' = IF overlapsAnyB(circles, c, den) THEN circles
                         ELSE IF ~fullyInsideViewport(c, den) THEN circles
                         ELSE Append(circles, c)
    /\ UNCHANGED << prevArcs, drawn, drawVars >>
    /\ UNCHANGED << variant, pc, arcs, den, attempts, totalTries, outsideCount,
                    bestCircles, bestOutsideCt, stack, entered, maxPathLen, qualBuilt,
                    qualTried >>

B_FillExit ==
    /\ variant = "B" /\ pc = "filling"
    /\ fillLeft = 0
    /\ fillLeft' = fillLeft - 1
    /\ pc' = "filled"
    /\ UNCHANGED << prevArcs, drawn, drawVars >>
    /\ UNCHANGED << variant, circles, arcs, den, attempts, totalTries, outsideCount,
                    bestCircles, bestOutsideCt, stack, entered, maxPathLen, qualBuilt,
                    qualTried >>

\* [ -HALF_PI, 0, HALF_PI, PI ][c0.edge]
EdgeAngle(e) == CASE e = 0 -> 0 - HALF_PI [] e = 1 -> 0 [] e = 2 -> HALF_PI [] e = 3 -> PI

Seg(c, a1, a2, cw) ==
    [cx |-> c.x, cy |-> c.y, r |-> c.radius, a1 |-> a1, a2 |-> a2, cw |-> cw]

\* the segment centred at the circle of index i (from 0)
ArcOf(cs, i) ==
    IF i = 0
    THEN Seg(cs[1], EdgeAngle(cs[1].edge),
             Atan2(cs[2].y - cs[1].y, cs[2].x - cs[1].x), TRUE)
    ELSE Seg(cs[i + 1],
             Atan2(cs[i + 1].y - cs[i].y, cs[i + 1].x - cs[i].x) + PI,
             Atan2(cs[i + 2].y - cs[i + 1].y, cs[i + 2].x - cs[i + 1].x),
             i % 2 = 0)

\* mutant of buildArcList: the old segments are kept
buildArcListKeep(old, cs) ==
    old \o
    (IF Len(cs) < 2 THEN << >> ELSE [k \in 1 .. Len(cs) - 1 |-> ArcOf(cs, k - 1)])

\* arcs.length = 0; then one push per circle but the last
buildArcList(old, cs) ==
    SubSeq(old, 1, 0) \o
    (IF Len(cs) < 2 THEN << >> ELSE [k \in 1 .. Len(cs) - 1 |-> ArcOf(cs, k - 1)])

BuildArcList ==
    /\ \/ variant = "A" /\ pc = "generated"
       \/ variant = "B" /\ pc = "filled"
    /\ arcs' = buildArcList(arcs, circles)
    /\ prevArcs' = Len(arcs)
    /\ pc' = "built"
    /\ UNCHANGED << drawn, drawVars >>
    /\ UNCHANGED << variant, circles, den, attempts, totalTries, outsideCount,
                    bestCircles, bestOutsideCt, stack, entered, fillLeft, maxPathLen,
                    qualBuilt, qualTried >>

---------------------------------------------------------------------------
(* setup() of either sketch *)

DrawIdle ==
    /\ prevArcs = 0 /\ drawn = << >> /\ sketch = "multi" /\ frameCount = 0 /\ lit = {}
    /\ winRecPending = FALSE /\ recPending = FALSE /\ grabCount = 0
    /\ folder = << >> /\ zips = 0 /\ saved = 0

Init == (InitA \/ InitB) /\ DrawIdle

Next ==
    \/ A_Attempt
    \/ A_Exit
    \/ B_Launch
    \/ B_Reject
    \/ B_Place
    \/ B_Backtrack
    \/ B_SearchDone
    \/ B_Restore
    \/ B_Fit
    \/ B_FillTry
    \/ B_FillExit
    \/ BuildArcList

Spec == Init /\ [][Next]_vars

\* setup() is one synchronous call: a generator that can take a step takes it
SpecFair == Spec /\ WF_vars(Next)

---------------------------------------------------------------------------
(* Arc drawing *)

\* a1 = (a1 % TWO_PI + TWO_PI) % TWO_PI
WrapAngle(a) == JsMod(JsMod(a, TWO_PI) + TWO_PI, TWO_PI)

\* mutant of WrapStop: equal angles are left alone
WrapStopStrict(start, stop) == IF stop < start THEN stop + TWO_PI ELSE stop

\* if (stop <= start) stop += TWO_PI
WrapStop(start, stop) == IF stop <= start THEN stop + TWO_PI ELSE stop

\* the call of arc() drawArcSegment makes; the perspective sketch first shifts
\* the centre to the eye point (cx -= width / 2)
drawArcSegment(seg, v, d) ==
    LET cx == IF v = "B" THEN seg.cx - (CANVAS_W * d) \div 2 ELSE seg.cx
        cy == IF v = "B" THEN seg.cy - (CANVAS_H * d) \div 2 ELSE seg.cy
        a1 == WrapAngle(seg.a1)
        a2 == WrapAngle(seg.a2)
    IN  IF seg.cw
        THEN [cx |-> cx, cy |-> cy, w |-> seg.r * 2, h |-> seg.r * 2,
              start |-> a1, stop |-> WrapStop(a1, a2)]
        ELSE [cx |-> cx, cy |-> cy, w |-> seg.r * 2, h |-> seg.r * 2,
              start |-> a2, stop |-> WrapStop(a2, a1)]

\* for (const seg of arcs) drawArcSegment(seg)
DrawPass(as, v, d) == [i \in 1 .. Len(as) |-> drawArcSegment(as[i], v, d)]

---------------------------------------------------------------------------
(* buildArcList and drawArcSegment over arbitrary circle lists and segments *)

\* every list of up to n circles in which each circle touches its predecessor
\* along an axis, grown from the seeds
RECURSIVE ListsFrom(_, _)
ListsFrom(cs, n) ==
    IF n = 0 THEN {cs}
    ELSE {cs} \cup UNION { ListsFrom(Append(cs, NextCircle(Last(cs), MIN_R * 2, k * HALF_PI)),
                                     n - 1) : k \in 0 .. 3 }

ArcLists ==
    { << >> } \cup
    UNION { ListsFrom(<< SeedA(e, MIN_R * 2, CANVAS_W) >>, MaxArcList - 1) : e \in Edges }

AngleInputs == { k * AngleGrain : k \in (0 - (TWO_PI \div AngleGrain))
                                          .. (2 * TWO_PI) \div AngleGrain }

SegInputs ==
    { [cx |-> CANVAS_W, cy |-> CANVAS_H, r |-> MIN_R * 2, a1 |-> a, a2 |-> b, cw |-> c]
      : a \in AngleInputs, b \in AngleInputs, c \in BOOLEAN }

InitArc ==
    /\ variant \in {"A", "B"} /\ pc = "arcs"
    /\ \/ circles \in ArcLists /\ arcs \in { << >>, << Seg(Circle(0, 0, 2, 0), 0, PI, TRUE) >> }
       \/ circles = << >> /\ \E seg \in SegInputs : arcs = << seg >>
    /\ den = 2 /\ attempts = 0
    /\ totalTries = 0 /\ outsideCount = 0 /\ bestCircles = << >> /\ bestOutsideCt = 0
    /\ stack = << >> /\ entered = << >> /\ fillLeft = 0
    /\ maxPathLen = 0 /\ qualBuilt = 0 /\ qualTried = 0
    /\ DrawIdle

ArcBuild ==
    /\ pc \in {"arcs", "arcs_built"}
    /\ arcs' = buildArcList(arcs, circles)
    /\ prevArcs' = Len(arcs)
    /\ drawn' = << >>
    /\ pc' = "arcs_built"
    /\ UNCHANGED << variant, circles, den, attempts, totalTries, outsideCount,
                    bestCircles, bestOutsideCt, stack, entered, fillLeft, maxPathLen,
                    qualBuilt, qualTried, drawVars >>

ArcDraw ==
    /\ pc \in {"arcs", "arcs_built"}
    /\ drawn' = DrawPass(arcs, variant, den)
    /\ UNCHANGED << variant, pc, circles, arcs, den, attempts, totalTries, outsideCount,
                    bestCircles, bestOutsideCt, stack, entered, fillLeft, maxPathLen,
                    qualBuilt, qualTried, prevArcs, drawVars >>

NextArc == ArcBuild \/ ArcDraw

SpecArc == InitArc /\ [][NextArc]_vars

---------------------------------------------------------------------------
(* The draw loop of the pulse sketches, and capture.js *)

\* const leader = floor(frameCount / TICK) % LAYERS
Leader(fc) == (fc \div TICK) % LAYERS

\* const pulses = floor(leader / GAP) + 1
Pulses(leader) == leader \div GAP + 1

\* mutant of Turquoise: the sign of diff is not tested
TurquoiseAnySign(leader, layer) ==
    /\ JsMod(leader - layer, GAP) = 0
    /\ leader - layer < Pulses(leader) * GAP

\* diff >= 0 && diff % GAP === 0 && diff / GAP < pulses
Turquoise(leader, layer) ==
    /\ leader - layer >= 0
    /\ JsMod(leader - layer, GAP) = 0
    /\ leader - layer < Pulses(leader) * GAP

\* the layers a frame strokes turquoise
LitLayers(sk, fc) ==
    IF sk = "single"
    THEN { layer \in 0 .. LAYERS - 1 : layer = Leader(fc) }
    ELSE { layer \in 0 .. LAYERS - 1 : Turquoise(Leader(fc), layer) }

\* String(n): the decimal digits of n
RECURSIVE DigitsOf(_)
DigitsOf(n) == IF n < 10 THEN << n >> ELSE Append(DigitsOf(n \div 10), n % 10)

\* padStart(len, "0")
RECURSIVE PadStart(_, _)
PadStart(ds, len) == IF Len(ds) >= len THEN ds ELSE PadStart(<< 0 >> \o ds, len)

\* `frame_${String(grabCount).padStart(4, "0")}.png`: the digits between the
\* fixed prefix and suffix
FrameName(n) == PadStart(DigitsOf(n), 4)

\* startCapture()
startCapture ==
    IF recPending
    THEN UNCHANGED << recPending, grabCount, folder >>
    ELSE /\ recPending' = TRUE
         /\ grabCount' = 0
         /\ folder' = << >>

\* finishCapture(), called by saveGifFrame while recPending holds
finishCapture ==
    IF ~recPending
    THEN UNCHANGED << recPending, zips >>
    ELSE /\ recPending' = FALSE
         /\ zips' = zips + 1

\* saveGifFrame()
saveGifFrame ==
    IF ~recPending
    THEN UNCHANGED << folder, grabCount, recPending, zips >>
    ELSE /\ folder' = Append(folder, FrameName(grabCount))
         /\ grabCount' = grabCount + 1
         /\ IF grabCount + 1 >= REC_FRAMES
            THEN finishCapture
            ELSE UNCHANGED << recPending, zips >>

\* draw(): the frame is painted, then  if (window.recPending) saveGifFrame();
Draw ==
    /\ pc = "draw"
    /\ frameCount < MaxFrames
    /\ frameCount' = frameCount + 1
    /\ lit' = LitLayers(sketch, frameCount + 1)
    /\ drawn' = DrawPass(arcs, variant, den)
    /\ IF winRecPending
       THEN saveGifFrame
       ELSE UNCHANGED << folder, grabCount, recPending, zips >>
    /\ UNCHANGED << genVars, prevArcs, sketch, winRecPending, saved >>

\* keyPressed(): R starts a capture unless window.recPending, Z saves a still
KeyPressed ==
    /\ pc = "draw"
    /\ \E key \in {"R", "Z", "s"} :
          /\ IF key = "R" /\ ~winRecPending
             THEN startCapture
             ELSE UNCHANGED << recPending, grabCount, folder >>
          /\ IF key = "Z"
             THEN saved < MaxSaved /\ saved' = saved + 1
             ELSE saved' = saved
    /\ UNCHANGED << genVars, prevArcs, drawn, sketch, frameCount, lit, winRecPending,
                    zips >>

InitDraw ==
    /\ variant = "B" /\ pc = "draw"
    /\ circles = << >> /\ arcs = << >>
    /\ den = 2 /\ attempts = 0
    /\ totalTries = 0 /\ outsideCount = 0 /\ bestCircles = << >> /\ bestOutsideCt = 0
    /\ stack = << >> /\ entered = << >> /\ fillLeft = 0
    /\ maxPathLen = 0 /\ qualBuilt = 0 /\ qualTried = 0
    /\ prevArcs = 0 /\ drawn = << >>
    /\ sketch \in {"single", "multi"}
    /\ frameCount = 0 /\ lit = {}
    /\ winRecPending = FALSE /\ recPending = FALSE /\ grabCount = 0
    /\ folder = << >> /\ zips = 0 /\ saved = 0

NextDraw == Draw \/ KeyPressed

SpecDraw == InitDraw /\ [][NextDraw]_vars

---------------------------------------------------------------------------
(* Properties of the generators *)

\* the tangent chain the generator returned: all of circles in A, and in B the
\* circles that came from bestCircles (fillers are appended behind them)
Returned == pc \in {"generated", "filling", "filled", "built"}
ChainLen == IF variant = "B" THEN Len(bestCircles) ELSE Len(circles)
Chain == SubSeq(circles, 1, ChainLen)

Tangent(cs) ==
    \A i \in 2 .. Len(cs) :
        Dist2(cs[i], cs[i - 1]) = Sq(cs[i].radius + cs[i - 1].radius)

\* C1: in every chain the generator returns (A, and B before and after the fit)
\* each circle but the first touches its predecessor: the distance of the centres
\* is the sum of the radii.
C1_Tangency == Returned => Tangent(Chain)

\* a chain of the search that the fit has scaled down
C1_Witness ==
    /\ variant = "B" /\ pc = "filling"
    /\ ChainLen >= 3
    /\ ScaleDown(bestCircles, 2)
    /\ circles # bestCircles

NoSpuriousOverlap(cs, eps) ==
    \A i, j \in 1 .. Len(cs) :
        j - i > 1 => ~(Dist2(cs[i], cs[j]) < Sq(cs[i].radius + cs[j].radius - eps))

\* C2: at every step of either generator, and in the chain returned, no two circles
\* whose indices differ by more than 1 are closer than the sum of their radii minus
\* epsilon (0 in A, the tolerance of overlapsAny in B).
C2_NoOverlap ==
    IF variant = "A" THEN NoSpuriousOverlap(circles, 0)
    ELSE NoSpuriousOverlap(circles, Eps(den))

\* the search holds a path in which two circles that are not neighbours are closer
\* than the sum of their radii, inside the tolerance
C2_Witness ==
    /\ variant = "B" /\ pc = "dfs"
    /\ \E i, j \in 1 .. Len(circles) :
          /\ j - i > 1
          /\ Dist2(circles[i], circles[j]) < Sq(circles[i].radius + circles[j].radius)

\* the bounding box of c exceeds an edge of the canvas
BoxExceedsCanvas(c, d) ==
    \/ c.x - c.radius < 0
    \/ c.x + c.radius > CANVAS_W * d
    \/ c.y - c.radius < 0
    \/ c.y + c.radius > CANVAS_H * d

C7_Claim ==
    (variant = "B" /\ pc = "built")
        => /\ Len(arcs) = ChainLen - 1
           /\ \A k \in 1 .. Len(arcs) :
                 \E i \in 1 .. ChainLen :
                    arcs[k].cx = circles[i].x /\ arcs[k].cy = circles[i].y

---------------------------------------------------------------------------
(* Properties of arc extraction and arc drawing *)

\* C6: buildArcList leaves, for a list of N >= 2 circles, exactly N - 1 segments,
\* segment i centred at circle i with its radius and clockwise exactly when i is
\* even (segment 0 is clockwise); for a shorter list it leaves no segment; what
\* arcs held before the call is gone.
C6_ArcList ==
    pc = "arcs_built" =>
        /\ Len(circles) < 2 => arcs = << >>
        /\ Len(circles) >= 2 =>
              /\ Len(arcs) = Len(circles) - 1
              /\ \A i \in 0 .. Len(circles) - 2 :
                    /\ arcs[i + 1].cx = circles[i + 1].x
                    /\ arcs[i + 1].cy = circles[i + 1].y
                    /\ arcs[i + 1].r = circles[i + 1].radius
                    /\ arcs[i + 1].cw = (i = 0 \/ i % 2 = 0)

\* buildArcList ran on a list of at least 3 circles while arcs held a segment
C6_Witness ==
    /\ pc = "arcs_built"
    /\ prevArcs > 0
    /\ Len(circles) >= 3
    /\ Len(arcs) = Len(circles) - 1

\* C10: the arc drawArcSegment draws starts at the normalised a1 (clockwise) or a2
\* (counter-clockwise), in [0, TWO_PI), and stops at the other normalised angle,
\* raised by TWO_PI when it is not above the start: start < stop and the sweep is
\* in (0, TWO_PI], never negative and never zero.
C10_Sweep ==
    (drawn # << >> /\ Len(drawn) = Len(arcs)) =>
        \A i \in 1 .. Len(arcs) :
            LET n1 == arcs[i].a1 % TWO_PI
                n2 == arcs[i].a2 % TWO_PI
                from == IF arcs[i].cw THEN n1 ELSE n2
                to   == IF arcs[i].cw THEN n2 ELSE n1
            IN  /\ drawn[i].start = from
                /\ drawn[i].stop = (IF to <= from THEN to + TWO_PI ELSE to)
                /\ 0 <= drawn[i].start /\ drawn[i].start < TWO_PI
                /\ drawn[i].start < drawn[i].stop
                /\ drawn[i].stop - drawn[i].start <= TWO_PI

\* the clockwise segment from 350 to 10 degrees is drawn from 350 to 370
C10_Witness ==
    /\ Len(arcs) = 1 /\ Len(drawn) = 1
    /\ arcs[1].cw
    /\ arcs[1].a1 = TWO_PI - AngleGrain /\ arcs[1].a2 = AngleGrain
    /\ drawn[1].start = TWO_PI - AngleGrain
    /\ drawn[1].stop = TWO_PI + AngleGrain

---------------------------------------------------------------------------
(* Properties of the draw loop *)

\* C8: once a capture has started, every draw callback stores the next frame in
\* order, the archive is generated by the callback that stores frame
\* REC_FRAMES - 1, and no callback stores a frame while no capture is running.
C8_Claim ==
    [][ frameCount' = frameCount + 1 =>
          IF recPending
          THEN /\ folder' = Append(folder, FrameName(grabCount))
               /\ grabCount' = grabCount + 1
               /\ zips' = (IF grabCount + 1 = REC_FRAMES THEN zips + 1 ELSE zips)
          ELSE folder' = folder /\ zips' = zips ]_vars

\* the layers that are leader, leader - GAP, leader - 2 * GAP, ... down to 0
PulseTrain(leader) == { leader - k * GAP : k \in 0 .. leader \div GAP }

C9_Frame ==
    (sketch = "multi" /\ frameCount >= 1) =>
        LET leader == (frameCount \div TICK) % LAYERS
        IN  /\ \A L \in 0 .. LAYERS - 1 :
                  L \in lit <=> \E m \in 0 .. leader \div GAP : leader - L = m * GAP
            /\ lit = PulseTrain(leader)
            /\ leader \in lit
            /\ Cardinality(lit) = leader \div GAP + 1

C9_Step ==
    (sketch = "multi" /\ frameCount >= 1 /\ frameCount' = frameCount + 1) =>
        \/ Cardinality(lit') >= Cardinality(lit)
        \/ /\ (frameCount \div TICK) % LAYERS = LAYERS - 1
           /\ (frameCount' \div TICK) % LAYERS = 0

\* C9: in every frame of the multi-pulse sketch the turquoise layers are exactly
\* leader, leader - GAP, ... down to 0, floor(leader / GAP) + 1 of them, the leader
\* among them; their number does not fall from one frame to the next unless the
\* leader wraps from LAYERS - 1 to 0.
C9_Pulse == [](C9_Frame) /\ [][C9_Step]_vars

\* a frame after the wrap of the leader with at least three pulses lit
C9_Witness ==
    /\ sketch = "multi"
    /\ frameCount > LAYERS
    /\ Cardinality(lit) >= 3

---------------------------------------------------------------------------
(* Properties of the viewport fitter *)

\* the step of setup() that runs fitRibbonToViewport
FitStep == variant = "B" /\ pc = "generated" /\ pc' = "filling"

\* n / m is the least of 1, limit / bw and limit / bh
IsFitScale(n, m, bw, bh, limit) ==
    /\ m > 0
    /\ n <= m
    /\ n * bw <= limit * m
    /\ n * bh <= limit * m
    /\ \/ n = m
       \/ n * bw = limit * m
       \/ n * bh = limit * m

\* C11: fitRibbonToViewport moves every circle of a non-empty chain by one scale
\* factor, the least of 1, limit / bboxWidth and limit / bboxHeight with
\* limit = VIEWPORT - 2 * VIEW_PAD, never above 1; after the fit the bounding box of
\* the circles (radii included) is no wider and no higher than limit and its centre
\* is the centre of the canvas.
C11_Fit ==
    [][ FitStep =>
          LET bw == BoxMaxX(circles) - BoxMinX(circles)
              bh == BoxMaxY(circles) - BoxMinY(circles)
              lim == (VIEWPORT - 2 * VIEW_PAD) * den
          IN  /\ Len(circles') = Len(circles) /\ Len(circles) >= 1
              /\ \E n \in {1, lim}, m \in {1, bw, bh} :
                    /\ IsFitScale(n, m, bw, bh, lim)
                    /\ \A i \in 1 .. Len(circles) :
                          /\ circles'[i].radius * den * m = circles[i].radius * n * den'
                          /\ (2 * circles'[i].x - CANVAS_W * den') * den * m
                               = (2 * circles[i].x - BoxMinX(circles) - BoxMaxX(circles))
                                    * n * den'
                          /\ (2 * circles'[i].y - CANVAS_H * den') * den * m
                               = (2 * circles[i].y - BoxMinY(circles) - BoxMaxY(circles))
                                    * n * den'
              /\ BoxMaxX(circles') - BoxMinX(circles') <= (VIEWPORT - 2 * VIEW_PAD) * den'
              /\ BoxMaxY(circles') - BoxMinY(circles') <= (VIEWPORT - 2 * VIEW_PAD) * den'
              /\ BoxMinX(circles') + BoxMaxX(circles') = CANVAS_W * den'
              /\ BoxMinY(circles') + BoxMaxY(circles') = CANVAS_H * den' ]_vars

\* the fit has just scaled down a chain of at least 3 circles that was wider than
\* high: its box is now exactly limit wide and less than limit high
C11_Witness ==
    /\ variant = "B" /\ pc = "filling" /\ fillLeft = FILL_ATTEMPTS
    /\ Len(circles) >= 3
    /\ ScaleDown(bestCircles, 2)
    /\ BoxMaxX(circles) - BoxMinX(circles) = (VIEWPORT - 2 * VIEW_PAD) * den
    /\ BoxMaxY(circles) - BoxMinY(circles) < (VIEWPORT - 2 * VIEW_PAD) * den

---------------------------------------------------------------------------
(* Termination and resources of the generators *)

C12_Bounds ==
    /\ variant = "A" =>
          /\ attempts <= MAX_ATTEMPTS
          /\ pc = "loop" => attempts < MAX_ATTEMPTS
          /\ Len(circles) <= MAX_CIRCLES_A
    /\ (variant = "B" /\ pc \in {"launch", "dfs", "searched"}) =>
          /\ Len(circles) <= MAX_CIRCLES_B
          /\ Len(stack) <= MAX_CIRCLES_B

C12_Step ==
    /\ (variant = "A" /\ pc = "loop" /\ circles' # circles) =>
          /\ attempts' = attempts + 1
          /\ attempts' < MAX_ATTEMPTS
    /\ (variant = "B" /\ totalTries' # totalTries) =>
          /\ totalTries' = totalTries + 1
          /\ Len(stack') = Len(stack) + 1
          /\ totalTries' > MAX_TOTAL_TRIES =>
                /\ Last(stack') = FAN_STEPS
                /\ bestCircles' = bestCircles
    /\ (variant = "B" /\ pc = "dfs" /\ Len(circles') > Len(circles)) =>
          /\ Last(stack) < FAN_STEPS
          /\ Len(circles) < MAX_CIRCLES_B
          /\ totalTries' = totalTries + 1

\* C12: both generators end inside their budgets whatever the random draws are.  The
\* walk takes fewer than MAX_ATTEMPTS turns of its loop, never holds more than
\* MAX_CIRCLES circles, and returns.  In the search every call of dfs counts one
\* try; a call that finds the budget of MAX_TOTAL_TRIES used up returns at once,
\* recording nothing and placing nothing, so that only calls inside the budget
\* expand candidates; the path never holds more than MAX_CIRCLES circles; and the
\* top-level call of dfs returns.
C12_Termination ==
    /\ [](C12_Bounds)
    /\ [][C12_Step]_vars
    /\ (variant = "A" /\ pc = "loop") ~> (pc = "generated")
    /\ (variant = "B" /\ pc = "launch") ~> (pc = "searched")

\* the search has run past its try budget with the path at the circle cap, and
\* its top-level call has returned
C12_Witness ==
    /\ variant = "B" /\ pc = "searched"
    /\ totalTries > MAX_TOTAL_TRIES
    /\ maxPathLen = MAX_CIRCLES_B

---------------------------------------------------------------------------
(* Properties of safeAngle *)

NearLeft(c, d) == c.x - c.radius <= 0
NearRight(c, d) == c.x + c.radius >= CANVAS_W * d
NearTop(c, d) == c.y - c.radius <= 0
NearBottom(c, d) == c.y + c.radius >= CANVAS_H * d

\* every angle safeAngle can return for c points away from the edges c is near
PointsAway(c, d) ==
    \A a \in safeAngle(c, d) :
        /\ NearLeft(c, d) => Cos(a) >= 0
        /\ NearRight(c, d) => Cos(a) <= 0
        /\ NearTop(c, d) => Sin(a) >= 0
        /\ NearBottom(c, d) => Sin(a) <= 0

\* C13: for every tail of the walk that touches or crosses one or two edges of the
\* canvas, safeAngle samples from an interval with minA <= maxA, and every angle it
\* can return points away from each edge the tail is near (left: cos >= 0, right:
\* cos <= 0, top: sin >= 0, bottom: sin <= 0); for a tail near no edge the interval
\* is the full circle.
C13_Claim ==
    (variant = "A" /\ pc = "loop") =>
        LET c == Last(circles)
        IN  IF NearLeft(c, den) \/ NearRight(c, den) \/ NearTop(c, den)
                 \/ NearBottom(c, den)
            THEN /\ safeMin(c, den) <= safeMax(c, den)
                 /\ PointsAway(c, den)
            ELSE safeMin(c, den) = 0 /\ safeMax(c, den) = TWO_PI

---------------------------------------------------------------------------
(* Back-tracking of the search *)

\* C14: between the steps of its fan, and so when it returns, every dfs invocation
\* finds the shared path and the counter outsideCount exactly as they were at its
\* entry, whether the calls below it ended on an exhausted fan, on the circle cap or
\* on the try budget; what the frames above it found at their entry is still the
\* front of the path; throughout the search outsideCount is the number of
\* fully-outside circles of the path; and when the top-level dfs has returned the
\* path is the seed alone.
C14_Cleanup ==
    variant = "B" =>
        /\ pc = "dfs" =>
              /\ Len(entered) = Len(stack)
              /\ circles = Last(entered).circles
              /\ outsideCount = Last(entered).outsideCount
              /\ \A k \in 1 .. Len(entered) :
                    /\ entered[k].circles = SubSeq(circles, 1, k)
                    /\ entered[k].outsideCount = OutsideIn(SubSeq(circles, 1, k), den)
        /\ pc \in {"launch", "dfs", "searched"} =>
              outsideCount = OutsideIn(circles, den)
        /\ pc = "searched" =>
              /\ Len(circles) = 1
              /\ circles[1].edge \in Edges
              /\ outsideCount = 0

\* a frame below the top one is about to return past the try budget, after paths
\* that reached the circle cap and held fully-outside circles were taken back
C14_Witness ==
    /\ variant = "B" /\ pc = "dfs"
    /\ Len(stack) >= 2 /\ Last(stack) = FAN_STEPS
    /\ totalTries > MAX_TOTAL_TRIES
    /\ maxPathLen = MAX_CIRCLES_B /\ Len(circles) < maxPathLen
    /\ qualBuilt > 0
    /\ outsideCount >= 1

=============================================================================
